---- MODULE Spec2Model ----
(***************************************************************************)
(* fobsvr: the snapshot cache (cache.Fill / cache.Load / cache.Wait), the  *)
(* GET /v1/fobs reader, the refresh channel with its two trigger sources   *)
(* and the Keycloak loop that drives cache.Fill.                           *)
(*                                                                         *)
(* The repository holds two builds of package main: main.go (the first     *)
(* version) and the revised one (src/unnamed/part_001).  Both drive the    *)
(* same cache (src/unnamed/part_000) and the same Keycloak client          *)
(* (src/unnamed/part_002).  The variable build says which one runs.        *)
(*                                                                         *)
(* Strings that the code parses are sequences of one-character strings;    *)
(* a time.Duration d is the integer d / 15625ns, so that 1ms = 64 and the  *)
(* halvings of 250ms stay exact for seven steps, as they do in             *)
(* nanoseconds.                                                            *)
(***************************************************************************)
EXTENDS Integers, Sequences, FiniteSets, TLC

\* ------------------------------------------------------------ bounds
\* Longest member list the group-members endpoint returns in one fetch.
MaxFetchLen == 2
\* Longest run of consecutive failed fetches.
MaxFailures == 3

\* ------------------------------------------------------------ time
Millisecond == 64
Hour == 3600000 * Millisecond
\* time.Millisecond * 250, the value lastRetry takes when it is unset
RetryFloor == 250 * Millisecond
\* values of the -resync-interval flag (its default is time.Hour)
ResyncIntervals == {Hour, 400 * Millisecond, 100 * Millisecond}

\* ------------------------------------------------------------ strconv.Atoi
Digits == <<"0", "1", "2", "3", "4", "5", "6", "7", "8", "9">>

IsDigit(c) == \E i \in 1..10 : Digits[i] = c

DigitVal(c) == (CHOOSE i \in 1..10 : Digits[i] = c) - 1

RECURSIVE ParseDigits(_, _)
ParseDigits(s, acc) ==
    IF s = <<>> THEN acc ELSE ParseDigits(Tail(s), acc * 10 + DigitVal(Head(s)))

\* strconv.Atoi with its error dropped (fobID, _ := strconv.Atoi(...)):
\* an optional sign and decimal digits give the number, anything else 0.
Atoi(s) ==
    LET signed == s # <<>> /\ Head(s) \in {"+", "-"}
        body   == IF signed THEN Tail(s) ELSE s
    IN  IF body = <<>> \/ \E i \in 1..Len(body) : ~IsDigit(body[i])
        THEN 0
        ELSE IF signed /\ Head(s) = "-" THEN 0 - ParseDigits(body, 0)
             ELSE ParseDigits(body, 0)

\* firstElOrZeroVal on a []string: the first element, or "" for an empty slice
firstElOrZeroVal(slice) == IF Len(slice) = 0 THEN <<>> ELSE slice[1]

\* ------------------------------------------------------------ Keycloak users
NoID == "nil"
\* (time.Hour * 24).Milliseconds()
TTL == 86400000

Attrs(fob, qr, approver) ==
    [keyfobID |-> fob, qrID |-> qr, buildingAccessApprover |-> approver]

\* gocloak.User records with the attributes newAccessUser reads.
\* hasAttrs = FALSE is user.Attributes == nil.
KcA == [ID |-> "a", hasAttrs |-> TRUE,
        attr |-> Attrs(<< <<"7">> >>, <<>>, << <<"k">> >>)]
KcB == [ID |-> "b", hasAttrs |-> TRUE,
        attr |-> Attrs(<<>>, << <<"2">> >>, << <<"k">> >>)]
KcC == [ID |-> "c", hasAttrs |-> TRUE,
        attr |-> Attrs(<< <<"x">> >>, << <<"3">> >>, << <<"k">> >>)]
KcD == [ID |-> "d", hasAttrs |-> TRUE,
        attr |-> Attrs(<< <<"5">> >>, <<>>, <<>>)]
KcE == [ID |-> "e", hasAttrs |-> TRUE,
        attr |-> Attrs(<< <<"0">> >>, <<>>, << <<"k">> >>)]
KcNil == [ID |-> NoID, hasAttrs |-> FALSE,
          attr |-> Attrs(<<>>, <<>>, <<>>)]

\* Every user the trusted group can hold.
KcUsers == {KcA, KcB, KcC, KcD, KcE, KcNil}

\* A newAccessUser that does not ask for the approval attribute.
newAccessUserUnapproved(kcuser) ==
    IF kcuser.ID = NoID \/ ~kcuser.hasAttrs THEN <<>>
    ELSE LET fobID == Atoi(firstElOrZeroVal(kcuser.attr.keyfobID))
             qrID  == Atoi(firstElOrZeroVal(kcuser.attr.qrID))
         IN  IF fobID = 0 /\ qrID = 0 THEN <<>>
             ELSE << [UserID |-> kcuser.ID, FobID |-> fobID,
                      QRID |-> qrID, TTL |-> TTL] >>

\* newAccessUser: the AccessUser of a Keycloak user, or none (nil).
\* The result is a sequence of zero or one AccessUser.
newAccessUser(kcuser) ==
    IF kcuser.ID = NoID \/ ~kcuser.hasAttrs THEN <<>>
    ELSE LET fobID == Atoi(firstElOrZeroVal(kcuser.attr.keyfobID))
             qrID  == Atoi(firstElOrZeroVal(kcuser.attr.qrID))
         IN  IF fobID = 0 /\ qrID = 0 THEN <<>>
             ELSE IF firstElOrZeroVal(kcuser.attr.buildingAccessApprover) = <<>>
                  THEN <<>>
                  ELSE << [UserID |-> kcuser.ID, FobID |-> fobID,
                           QRID |-> qrID, TTL |-> TTL] >>

\* keycloak.ListUsers on a successful fetch of `members`: the pages are
\* appended in order and every user newAccessUser rejects is skipped.
RECURSIVE ListUsers(_)
ListUsers(members) ==
    IF members = <<>> THEN <<>>
    ELSE newAccessUser(Head(members)) \o ListUsers(Tail(members))

\* Sequences without repetition over S of length at most n: what the
\* members endpoint can return.
RECURSIVE Lists(_, _)
Lists(S, n) ==
    IF n = 0 THEN {<<>>}
    ELSE {<<>>} \cup UNION { { <<x>> \o t : t \in Lists(S \ {x}, n - 1) } : x \in S }

\* ------------------------------------------------------------ sort.Slice
\* sort.Slice(users, less) with less(i, j) = users[i].FobID < users[j].FobID.
\* For slices of at most 12 elements the library runs insertion sort:
\*   for i := a + 1; i < b; i++ { for j := i; j > a && less(j, j-1); j-- { swap } }
RECURSIVE InsertLast(_, _)
InsertLast(s, j) ==
    IF j > 1 /\ s[j].FobID < s[j - 1].FobID
    THEN InsertLast([s EXCEPT ![j] = s[j - 1], ![j - 1] = s[j]], j - 1)
    ELSE s

RECURSIVE InsertionSort(_, _)
InsertionSort(s, i) ==
    IF i > Len(s) THEN s ELSE InsertionSort(InsertLast(s, i), i + 1)

SortByFobID(users) == InsertionSort(users, 2)

\* ------------------------------------------------------------ fingerprint
\* json.Marshal of one AccessUser: fobID and qrID carry omitempty.
\* A member is <<key, string value, number value>>.
MarshalUser(u) ==
    << <<"userID", u.UserID, 0>> >>
    \o (IF u.FobID = 0 THEN <<>> ELSE << <<"fobID", "", u.FobID>> >>)
    \o (IF u.QRID = 0 THEN <<>> ELSE << <<"qrID", "", u.QRID>> >>)
    \o << <<"ttl", "", u.TTL>> >>

Marshal(users) == [i \in 1..Len(users) |-> MarshalUser(users[i])]

\* calculateUsersHash: hex(sha256(json)).  The digest is modelled as
\* collision free: it is the serialisation, tagged.
calculateUsersHash(users) == <<"sha256", Marshal(users)>>

\* The zero value of cache.hash: the empty string.
EmptyHash == <<>>

\* cache.state: a nil slice, or a (possibly empty) slice of users.
NilState == [isNil |-> TRUE, users |-> <<>>]
Slice(users) == [isNil |-> FALSE, users |-> users]

\* ------------------------------------------------------------ channels
\* A send that takes no notice of the capacity.
SendUnbounded(n, cap) == n + 1

\* A non-blocking send on a channel holding n of cap values:
\*   select { case ch <- struct{}{}: default: }
TrySend(n, cap) == IF n < cap THEN n + 1 ELSE n

\* make(chan struct{}, 1): the refresh channel and every waiter's channel
ChanCap == 1

\* ------------------------------------------------------------ sync.Mutex
Free == "free"
Driver == "driver"
Readers == {"r1", "r2"}

\* A Lock that does not wait for the holder.
LockIgnored(holder, p) == TRUE

\* c.lock.Lock() returns for p only while nobody holds the mutex.  A
\* reader's critical sections (register, delete, Load's read) are one
\* access to the cache each and are taken as one step, Lock to Unlock, so
\* only Fill is ever seen holding the mutex.
CanLock(holder, p) == holder = Free

\* ------------------------------------------------------------ backoff
\* A backoff without its ceiling.
NextRetryUnclamped(last, interval) ==
    LET base == IF last = 0 THEN RetryFloor ELSE last
    IN  base + (base \div 2)

\* The delay the Keycloak loop sleeps next, from the one it slept last:
\*   if lastRetry == 0 { lastRetry = 250ms }
\*   lastRetry += lastRetry / 2
\*   if lastRetry > *resync { lastRetry = *resync }
NextRetry(last, interval) ==
    LET base  == IF last = 0 THEN RetryFloor ELSE last
        grown == base + (base \div 2)
    IN  IF grown > interval THEN interval ELSE grown

\* ------------------------------------------------------------ wait parameter
\* Values of the wait query parameter: absent, "1s", "2m", "soon", "5".
WaitParams == { <<>>, <<"1", "s">>, <<"2", "m">>,
                <<"s", "o", "o", "n">>, <<"5">> }

UnitOf(c) == IF c = "s" THEN 1000 * Millisecond
             ELSE IF c = "m" THEN 60000 * Millisecond
             ELSE IF c = "h" THEN Hour ELSE 0

\* time.ParseDuration on decimal digits followed by one unit letter; a
\* string without digits, without a unit or with an unknown unit is an
\* error ("time: invalid duration", "time: missing unit in duration").
ParseDuration(s) ==
    LET n == Len(s) IN
    IF n >= 2 /\ (\A i \in 1..(n - 1) : IsDigit(s[i])) /\ UnitOf(s[n]) # 0
    THEN [ok |-> TRUE, d |-> ParseDigits(SubSeq(s, 1, n - 1), 0) * UnitOf(s[n])]
    ELSE [ok |-> FALSE, d |-> 0]

\* ------------------------------------------------------------ state
VARIABLES
    build,      \* "first" (main.go) or "revised" (part_001)
    resync,     \* *resync
    group,      \* the Keycloak users that can be members of the group
    clients,    \* the readers that send requests
    headers,    \* the If-None-Match headers their requests carry
    state,      \* cache.state
    hash,       \* cache.hash
    watchers,   \* cache.watchers: the channels, named by their reader
    lock,       \* holder of cache.lock
    refresh,    \* number of values in the refresh channel
    dpc,        \* where the Keycloak loop is
    users,      \* Fill's sorted users
    fillHash,   \* Fill's hash
    toSignal,   \* channels the range over c.watchers has still to visit
    lastRetry,  \* the Keycloak loop's lastRetry
    failStreak, \* history: consecutive failed Fills
    committed,  \* history: hash of the last changed Fill that returned
    rpc,        \* where each reader's request is
    chanLen,    \* number of values in each reader's channel
    chanOpen,   \* whether each reader's channel exists and is not closed
    got,        \* what each reader's Load returned
    inm         \* each request's If-None-Match header ("" when absent)

vars == <<build, resync, group, clients, headers, state, hash, watchers, lock, refresh, dpc, users,
          fillHash, toSignal, lastRetry, failStreak, committed, rpc,
          chanLen, chanOpen, got, inm>>

envVars == <<build, resync, group, clients, headers>>
cacheVars == <<state, hash, watchers, lock>>
driverVars == <<dpc, users, fillHash, toSignal, lastRetry, failStreak, committed>>
readerVars == <<rpc, chanLen, chanOpen, got, inm>>

NoLoad == [state |-> NilState, hash |-> EmptyHash]

\* main.go makes the refresh channel empty; the revised main sends one
\* value into it before the loops start.
InitialRefresh(b) == IF b = "revised" THEN 1 ELSE 0

\* Values of the If-None-Match header: absent, or the fingerprint of the
\* empty list (which the client holds if that is the list it saw last).
IfNoneMatch == {EmptyHash, calculateUsersHash(<<>>)}

\* The runs explored: two concurrent readers of a small group and the
\* Keycloak loop alone on any group under the default resync interval, and
\* one reader of a small group, sending either header, under the shorter
\* intervals.
Deployments ==
    [resync : {Hour}, group : {{KcA, KcD}}, clients : {Readers},
     headers : {{EmptyHash}}]
    \cup [resync : {Hour}, group : {KcUsers}, clients : {{}},
          headers : {{EmptyHash}}]
    \cup [resync : ResyncIntervals \ {Hour}, group : {{KcA, KcB, KcD}},
          clients : {{"r1"}}, headers : {IfNoneMatch}]

\* The state after main has built the cache and the refresh channel, in
\* one of the runs of D.
InitIn(D) ==
    /\ build \in {"first", "revised"}
    /\ \E d \in D :
          /\ resync = d.resync
          /\ group = d.group
          /\ clients = d.clients
          /\ headers = d.headers
    /\ state = NilState
    /\ hash = EmptyHash
    /\ watchers = {}
    /\ lock = Free
    /\ refresh = InitialRefresh(build)
    /\ dpc = "idle"
    /\ users = <<>>
    /\ fillHash = EmptyHash
    /\ toSignal = {}
    /\ lastRetry = 0
    /\ failStreak = 0
    /\ committed = EmptyHash
    /\ rpc = [r \in Readers |-> "idle"]
    /\ chanLen = [r \in Readers |-> 0]
    /\ chanOpen = [r \in Readers |-> FALSE]
    /\ got = [r \in Readers |-> NoLoad]
    /\ inm = [r \in Readers |-> EmptyHash]

Init == InitIn(Deployments)

\* ------------------------------------------------------------ triggers
\* POST /webhook: a non-blocking send on the refresh channel.
Webhook ==
    /\ refresh' = TrySend(refresh, ChanCap)
    /\ UNCHANGED <<envVars, cacheVars, driverVars, readerVars>>

\* One tick of time.NewTicker(*resync): a non-blocking send as well.
Tick ==
    /\ refresh' = TrySend(refresh, ChanCap)
    /\ UNCHANGED <<envVars, cacheVars, driverVars, readerVars>>

\* ------------------------------------------------------------ Keycloak loop
\* lastRetry once the loop body has looked at Fill's result.  The revised
\* loop resets it and continues on success; the first one resets it and
\* falls through to the backoff lines.
RetryAfterFill(b, ok, last, interval) ==
    IF ok
    THEN IF b = "revised" THEN 0 ELSE NextRetry(0, interval)
    ELSE NextRetry(last, interval)

\* Where the loop goes once Fill has returned: the revised loop continues
\* (back to `for range refresh`) on success, every other path sleeps.
PcAfterFill(b, ok) == IF ok /\ b = "revised" THEN "idle" ELSE "sleep"

\* A loop that gives up after a sleep.
StopAfterSleep(b) == "stopped"

\* Where the loop goes after time.Sleep(lastRetry): `goto start` in the
\* first build, the next `for range refresh` iteration in the revised one.
PcAfterSleep(b) == IF b = "first" THEN "fetch" ELSE "idle"

\* for range refresh: take one value from the channel.
DriverRecv ==
    /\ dpc = "idle"
    /\ refresh > 0
    /\ refresh' = refresh - 1
    /\ dpc' = "fetch"
    /\ UNCHANGED <<envVars, cacheVars, users, fillHash, toSignal,
                   lastRetry, failStreak, committed, readerVars>>

\* A Fill that stores ListUsers' nil result before it looks at the error.
FetchFailClears ==
    /\ dpc = "fetch"
    /\ failStreak < MaxFailures
    /\ state' = NilState
    /\ hash' = EmptyHash
    /\ failStreak' = failStreak + 1
    /\ lastRetry' = RetryAfterFill(build, FALSE, lastRetry, resync)
    /\ dpc' = PcAfterFill(build, FALSE)
    /\ UNCHANGED <<envVars, watchers, lock, refresh, users, fillHash,
                   toSignal, committed, readerVars>>

\* cache.Fill, ListUsers returns an error: Fill returns it, the loop logs
\* it and computes the next delay.
FetchFail ==
    /\ dpc = "fetch"
    /\ failStreak < MaxFailures
    /\ failStreak' = failStreak + 1
    /\ lastRetry' = RetryAfterFill(build, FALSE, lastRetry, resync)
    /\ dpc' = PcAfterFill(build, FALSE)
    /\ UNCHANGED <<envVars, cacheVars, refresh, users, fillHash,
                   toSignal, committed, readerVars>>

\* cache.Fill, ListUsers returns the members' users: sort, hash.
FetchOK ==
    /\ dpc = "fetch"
    /\ \E members \in Lists(group, MaxFetchLen) :
          LET sorted == SortByFobID(ListUsers(members)) IN
          /\ users' = sorted
          /\ fillHash' = calculateUsersHash(sorted)
    /\ dpc' = "fill_lock"
    /\ UNCHANGED <<envVars, cacheVars, refresh, toSignal, lastRetry,
                   failStreak, committed, readerVars>>

\* c.lock.Lock() in Fill
FillLock ==
    /\ dpc = "fill_lock"
    /\ CanLock(lock, Driver)
    /\ lock' = Driver
    /\ dpc' = "fill_compare"
    /\ UNCHANGED <<envVars, state, hash, watchers, refresh, users,
                   fillHash, toSignal, lastRetry, failStreak, committed,
                   readerVars>>

\* A Fill that installs whatever it fetched.
ChangedAlways(stored, new) == TRUE

\* Fill's test for "something changed": c.hash == hash returns early.
Changed(stored, new) == stored # new

\* A return that leaves the mutex locked.
FillReturnsLocked ==
    /\ lock' = lock
    /\ users' = <<>>
    /\ fillHash' = EmptyHash
    /\ failStreak' = 0
    /\ lastRetry' = IF build = "revised" THEN 0 ELSE NextRetry(0, resync)
    /\ dpc' = IF build = "revised" THEN "idle" ELSE "sleep"

\* Fill returns nil (deferred Unlock), and the loop body handles success.
FillReturns ==
    /\ lock' = Free
    /\ users' = <<>>
    /\ fillHash' = EmptyHash
    /\ failStreak' = 0
    /\ lastRetry' = RetryAfterFill(build, TRUE, lastRetry, resync)
    /\ dpc' = PcAfterFill(build, TRUE)

\* if c.hash == hash { ... }
FillCompare ==
    /\ dpc = "fill_compare"
    /\ dpc' = IF Changed(hash, fillHash) THEN "fill_state" ELSE "fill_nochange"
    /\ UNCHANGED <<envVars, cacheVars, refresh, users, fillHash, toSignal,
                   lastRetry, failStreak, committed, readerVars>>

\* slog.Info("cache was filled but nothing changed"); return nil
FillNoChange ==
    /\ dpc = "fill_nochange"
    /\ FillReturns
    /\ UNCHANGED <<envVars, state, hash, watchers, refresh, toSignal,
                   committed, readerVars>>

\* c.state = users
FillState ==
    /\ dpc = "fill_state"
    /\ state' = Slice(users)
    /\ dpc' = "fill_hash"
    /\ UNCHANGED <<envVars, hash, watchers, lock, refresh, users,
                   fillHash, toSignal, lastRetry, failStreak, committed,
                   readerVars>>

\* A Fill that forgets to store the fingerprint.
KeepHash(stored, new) == stored

\* A range loop that stops after its first channel.
FirstTargetOnly(ws) == IF ws = {} THEN {} ELSE {CHOOSE ch \in ws : TRUE}

\* The value c.hash = hash stores.
InstallHash(stored, new) == new

\* The channels `for ch := range c.watchers` visits.
SignalTargets(ws) == ws

\* c.hash = hash, and the range loop starts.
FillHash ==
    /\ dpc = "fill_hash"
    /\ hash' = InstallHash(hash, fillHash)
    /\ toSignal' = SignalTargets(watchers)
    /\ dpc' = "fill_signal"
    /\ UNCHANGED <<envVars, state, watchers, lock, refresh, users,
                   fillHash, lastRetry, failStreak, committed, readerVars>>

\* One iteration of the range loop (the order is the map's): a
\* non-blocking send on ch.
FillSignal ==
    /\ dpc = "fill_signal"
    /\ \E ch \in toSignal :
          /\ chanLen' = [chanLen EXCEPT ![ch] = TrySend(chanLen[ch], ChanCap)]
          /\ toSignal' = toSignal \ {ch}
    /\ UNCHANGED <<envVars, cacheVars, refresh, dpc, users, fillHash,
                   lastRetry, failStreak, committed, rpc, chanOpen, got,
                   inm>>

\* The range loop is over: Fill logs and returns nil.
FillDone ==
    /\ dpc = "fill_signal"
    /\ toSignal = {}
    /\ committed' = fillHash
    /\ FillReturns
    /\ UNCHANGED <<envVars, state, hash, watchers, refresh, toSignal,
                   readerVars>>

\* time.Sleep(lastRetry) returns.
SleepDone ==
    /\ dpc = "sleep"
    /\ dpc' = PcAfterSleep(build)
    /\ UNCHANGED <<envVars, cacheVars, refresh, users, fillHash,
                   toSignal, lastRetry, failStreak, committed, readerVars>>

\* ------------------------------------------------------------ GET /v1/fobs
\* The request arrives.  Without a wait parameter the handler goes to Load;
\* an unparsable one is answered 400; otherwise cache.Wait starts and makes
\* its channel.
StartRequest(r) ==
    /\ r \in clients
    /\ rpc[r] = "idle"
    /\ \E header \in headers : inm' = [inm EXCEPT ![r] = header]
    /\ \E wait \in WaitParams :
          IF wait = <<>>
          THEN /\ rpc' = [rpc EXCEPT ![r] = "load"]
               /\ UNCHANGED <<chanLen, chanOpen>>
          ELSE IF ~ParseDuration(wait).ok
          THEN /\ rpc' = [rpc EXCEPT ![r] = "reject"]
               /\ UNCHANGED <<chanLen, chanOpen>>
          ELSE /\ rpc' = [rpc EXCEPT ![r] = "wait_register"]
               /\ chanLen' = [chanLen EXCEPT ![r] = 0]
               /\ chanOpen' = [chanOpen EXCEPT ![r] = TRUE]
    /\ UNCHANGED <<envVars, cacheVars, refresh, driverVars, got>>

\* A handler whose error branch lacks the return and goes on to cache.Wait.
RejectFallsThrough(r) ==
    /\ rpc[r] = "reject"
    /\ rpc' = [rpc EXCEPT ![r] = "wait_register"]
    /\ chanLen' = [chanLen EXCEPT ![r] = 0]
    /\ chanOpen' = [chanOpen EXCEPT ![r] = TRUE]
    /\ UNCHANGED <<envVars, cacheVars, refresh, driverVars, got, inm>>

\* http.Error(w, err.Error(), 400); return
Reject(r) ==
    /\ rpc[r] = "reject"
    /\ rpc' = [rpc EXCEPT ![r] = "idle"]
    /\ inm' = [inm EXCEPT ![r] = EmptyHash]
    /\ UNCHANGED <<envVars, cacheVars, refresh, driverVars, chanLen,
                   chanOpen, got>>

\* c.watchers[ch] = struct{}{}
Register(ws, ch) == ws \cup {ch}

\* A Wait that leaves its channel registered.
DeregisterNothing(ws, ch) == ws

\* delete(c.watchers, ch)
Deregister(ws, ch) == ws \ {ch}

\* A Wait that wakes itself when the store holds another fingerprint than
\* the request's.
WaitRegisterStale(r) ==
    /\ rpc[r] = "wait_register"
    /\ CanLock(lock, r)
    /\ watchers' = Register(watchers, r)
    /\ chanLen' = [chanLen EXCEPT ![r] = IF hash # inm[r] THEN 1 ELSE 0]
    /\ rpc' = [rpc EXCEPT ![r] = "wait_select"]
    /\ UNCHANGED <<envVars, state, hash, lock, refresh, driverVars,
                   chanOpen, got, inm>>

\* c.lock.Lock(); c.watchers[ch] = struct{}{}; c.lock.Unlock(); the timer
\* starts.
WaitRegister(r) ==
    /\ rpc[r] = "wait_register"
    /\ CanLock(lock, r)
    /\ watchers' = Register(watchers, r)
    /\ rpc' = [rpc EXCEPT ![r] = "wait_select"]
    /\ UNCHANGED <<envVars, state, hash, lock, refresh, driverVars,
                   chanLen, chanOpen, got, inm>>

\* select: case <-ch
WaitSignal(r) ==
    /\ rpc[r] = "wait_select"
    /\ chanLen[r] > 0
    /\ chanLen' = [chanLen EXCEPT ![r] = chanLen[r] - 1]
    /\ rpc' = [rpc EXCEPT ![r] = "wait_delete"]
    /\ UNCHANGED <<envVars, cacheVars, refresh, driverVars, chanOpen,
                   got, inm>>

\* select: case <-t.C, the timer of `period` has fired
WaitTimeout(r) ==
    /\ rpc[r] = "wait_select"
    /\ rpc' = [rpc EXCEPT ![r] = "wait_delete"]
    /\ UNCHANGED <<envVars, cacheVars, refresh, driverVars, chanLen,
                   chanOpen, got, inm>>

\* A delete that does not take the lock.
WaitDeleteUnlocked(r) ==
    /\ rpc[r] = "wait_delete"
    /\ watchers' = Deregister(watchers, r)
    /\ rpc' = [rpc EXCEPT ![r] = "wait_close"]
    /\ UNCHANGED <<envVars, state, hash, lock, refresh, driverVars,
                   chanLen, chanOpen, got, inm>>

\* c.lock.Lock(); delete(c.watchers, ch); c.lock.Unlock()
WaitDelete(r) ==
    /\ rpc[r] = "wait_delete"
    /\ CanLock(lock, r)
    /\ watchers' = Deregister(watchers, r)
    /\ rpc' = [rpc EXCEPT ![r] = "wait_close"]
    /\ UNCHANGED <<envVars, state, hash, lock, refresh, driverVars,
                   chanLen, chanOpen, got, inm>>

\* close(ch); Wait returns (t.Stop() is deferred).
WaitClose(r) ==
    /\ rpc[r] = "wait_close"
    /\ chanOpen' = [chanOpen EXCEPT ![r] = FALSE]
    /\ chanLen' = [chanLen EXCEPT ![r] = 0]
    /\ rpc' = [rpc EXCEPT ![r] = "load"]
    /\ UNCHANGED <<envVars, cacheVars, refresh, driverVars, got, inm>>

\* Load: c.lock.Lock(); return c.state, c.hash (deferred Unlock)
Load(r) ==
    /\ rpc[r] = "load"
    /\ CanLock(lock, r)
    /\ got' = [got EXCEPT ![r] = [state |-> state, hash |-> hash]]
    /\ rpc' = [rpc EXCEPT ![r] = "respond"]
    /\ UNCHANGED <<envVars, cacheVars, refresh, driverVars, chanLen,
                   chanOpen, inm>>

\* The status the handler answers with, from what Load returned and the
\* request's If-None-Match header.  Only the first build has the 412.
StatusOf(b, loaded, header) ==
    IF b = "first" /\ loaded.state.isNil THEN 412
    ELSE IF loaded.hash # EmptyHash /\ loaded.hash = header THEN 304
    ELSE 200

\* json.NewEncoder(w).Encode(&users): null for a nil slice, the array of
\* the users' objects otherwise.
Encode(st) == [null |-> st.isNil, elems |-> Marshal(st.users)]

\* What the handler writes: the status, and with a 200 the ETag header and
\* the body.  A 412 and a 304 carry neither.
Response(b, loaded, header) ==
    LET status == StatusOf(b, loaded, header) IN
    [status |-> status,
     etag   |-> IF status = 200 THEN loaded.hash ELSE EmptyHash,
     body   |-> IF status = 200 THEN Encode(loaded.state)
                ELSE Encode(NilState)]

\* The handler answers and the request is over.
Respond(r) ==
    /\ rpc[r] = "respond"
    /\ rpc' = [rpc EXCEPT ![r] = "idle"]
    /\ got' = [got EXCEPT ![r] = NoLoad]
    /\ inm' = [inm EXCEPT ![r] = EmptyHash]
    /\ UNCHANGED <<envVars, cacheVars, refresh, driverVars, chanLen,
                   chanOpen>>

\* ------------------------------------------------------------ specification
Next ==
    \/ Webhook
    \/ Tick
    \/ DriverRecv
    \/ FetchFail
    \/ FetchOK
    \/ FillLock
    \/ FillCompare
    \/ FillNoChange
    \/ FillState
    \/ FillHash
    \/ FillSignal
    \/ FillDone
    \/ SleepDone
    \/ \E r \in Readers : StartRequest(r)
    \/ \E r \in Readers : Reject(r)
    \/ \E r \in Readers : WaitRegister(r)
    \/ \E r \in Readers : WaitSignal(r)
    \/ \E r \in Readers : WaitTimeout(r)
    \/ \E r \in Readers : WaitDelete(r)
    \/ \E r \in Readers : WaitClose(r)
    \/ \E r \in Readers : Load(r)
    \/ \E r \in Readers : Respond(r)

Spec == Init /\ [][Next]_vars

\* The Go scheduler runs every goroutine that can run: the Keycloak loop
\* takes its next step, a fetch ends (ListUsers has a one-minute timeout),
\* a sleep ends, the ticker ticks, a timer fires, a handler goes on.
\* sync.Mutex hands the lock to a goroutine that has waited for more than
\* a millisecond, so a Lock that can return again and again does return.
\* A client need not send another request.
DriverStep ==
    \/ DriverRecv
    \/ FetchFail
    \/ FetchOK
    \/ FillLock
    \/ FillCompare
    \/ FillNoChange
    \/ FillState
    \/ FillHash
    \/ FillSignal
    \/ FillDone
    \/ SleepDone

ReaderStep(r) ==
    \/ Reject(r)
    \/ WaitSignal(r)
    \/ WaitTimeout(r)
    \/ WaitClose(r)
    \/ Respond(r)

ReaderLockStep(r) ==
    \/ WaitRegister(r)
    \/ WaitDelete(r)
    \/ Load(r)

Fairness ==
    /\ WF_vars(DriverStep)
    /\ WF_vars(Tick)
    /\ \A r \in Readers : WF_vars(ReaderStep(r))
    /\ \A r \in Readers : SF_vars(ReaderLockStep(r))

\* The runs whose liveness is checked: two concurrent readers under the
\* default resync interval, one reader under every interval.
LiveDeployments ==
    [resync : {Hour}, group : {{KcA, KcD}}, clients : {Readers},
     headers : {{EmptyHash}}]
    \cup [resync : ResyncIntervals, group : {{KcA, KcD}},
          clients : {{"r1"}}, headers : {{EmptyHash}}]

LiveInit == InitIn(LiveDeployments)

FairSpec == LiveInit /\ [][Next]_vars /\ Fairness

\* ============================================================ properties
\* Same entries, whatever the order (the lists hold no entry twice).
SameEntries(s, t) ==
    /\ Len(s) = Len(t)
    /\ {s[i] : i \in 1..Len(s)} = {t[i] : i \in 1..Len(t)}

\* The stored state is the sorted result of the last successful fetch, so
\* "this fetch returned the entries of the one before" is "this fetch
\* returned the entries of the stored state".
\* C1: a Fill whose fetch returns the entries of the previous successful
\* fetch, in whatever order, computes the stored fingerprint (and so
\* changes nothing and signals nobody).
C1_SameEntriesSameHash ==
    (dpc = "fill_compare" /\ ~state.isNil /\ SameEntries(users, state.users))
        => fillHash = hash

\* C3: a Fill whose fingerprint equals the stored one leaves state, hash
\* and watchers as they are, sends on no channel and returns.
C3_UnchangedFillIsNoOp ==
    [][ ( /\ dpc \in {"fill_compare", "fill_nochange"}
          /\ fillHash = hash
          /\ dpc' # dpc )
        => ( /\ state' = state
             /\ hash' = hash
             /\ watchers' = watchers
             /\ chanLen' = chanLen
             /\ dpc' \in {"fill_nochange", "idle", "sleep"} ) ]_vars

\* An unchanged Fill is about to return while a waiter is registered and
\* blocked with an empty channel.
C3_Witness ==
    /\ dpc = "fill_nochange"
    /\ \E r \in watchers : rpc[r] = "wait_select" /\ chanLen[r] = 0

\* What Load may return: nothing with the empty hash, or a state with the
\* fingerprint of exactly that state.
Consistent(pair) ==
    IF pair.state.isNil THEN pair.hash = EmptyHash
    ELSE pair.hash = calculateUsersHash(pair.state.users)

\* C4: every pair a Load has returned is consistent, and it is the empty
\* pair only while no Fill has installed anything.
C4_LoadConsistent ==
    [][ \A r \in Readers :
          (rpc[r] = "load" /\ rpc'[r] = "respond")
            => /\ Consistent(got'[r])
               /\ got'[r].state.isNil <=> committed = EmptyHash ]_vars

\* A Load has returned a state while a later Fill is between its two
\* assignments.
C4_Witness ==
    \E r \in Readers :
        /\ rpc[r] = "respond"
        /\ ~got[r].state.isNil
        /\ dpc = "fill_hash"

\* C5: a signal is sent only once the Fill's state and fingerprint are
\* stored, and every Load returns the fingerprint of the last changed Fill
\* that has returned: a reader woken by a Fill, and any reader that loads
\* after a changed Fill has returned, sees that install or a later one.
C5_LoadSeesInstall ==
    [][ /\ (\E r \in Readers : chanLen'[r] > chanLen[r])
            => (hash = fillHash /\ state = Slice(users) /\ lock = Driver)
        /\ \A r \in Readers :
              (rpc[r] = "load" /\ rpc'[r] = "respond")
                => got'[r].hash = committed ]_vars

\* A registered waiter holds the signal of a changed Fill that is still in
\* its range loop, the new fingerprint being stored already.
C5_Witness ==
    \E r \in Readers :
        /\ rpc[r] = "wait_select"
        /\ chanLen[r] = 1
        /\ dpc = "fill_signal"
        /\ hash = fillHash
        /\ committed # fillHash
        /\ committed # EmptyHash

\* C7: the watcher set holds exactly the channels of the Wait calls that
\* have registered and not yet deregistered, so none once Wait has returned.
C7_NoWaiterLeak ==
    watchers = {r \in Readers : rpc[r] \in {"wait_select", "wait_delete"}}

\* One Wait has just deregistered (it is about to close its channel) and
\* the other reader's Wait is still registered.
C7_Witness ==
    \E r, q \in Readers :
        /\ rpc[r] = "wait_close"
        /\ rpc[q] = "wait_select"
        /\ watchers = {q}

\* C2: a changed Fill visits every registered channel; a visit leaves
\* exactly one signal in the channel (sent now, or still pending) and is
\* never blocked by a full channel; when the Fill returns no registered
\* waiter is left blocked on an empty channel.
C2_EveryWaiterSignalled ==
    /\ [](dpc = "fill_signal" => chanLen \in [Readers -> 0..ChanCap])
    /\ []((dpc = "fill_signal" /\ toSignal # {}) => ENABLED FillSignal)
    /\ [][ /\ (dpc = "fill_hash" /\ dpc' = "fill_signal")
               => toSignal' = watchers
           /\ \A ch \in Readers :
                (ch \in toSignal /\ ch \notin toSignal')
                  => (chanLen'[ch] = 1 /\ dpc' = "fill_signal")
           /\ (dpc = "fill_signal" /\ dpc' # "fill_signal")
               => \A ch \in watchers :
                     rpc[ch] = "wait_select" => chanLen[ch] = 1 ]_vars

\* A changed Fill has returned and both readers, registered during it,
\* hold its signal.
C2_Witness ==
    /\ dpc \in {"idle", "sleep"}
    /\ lock = Free
    /\ committed # EmptyHash
    /\ watchers = Readers
    /\ \A r \in Readers : rpc[r] = "wait_select" /\ chanLen[r] = 1

\* C8: the refresh channel never holds more than one signal, and a
\* webhook or a tick is never blocked, whether or not one is pending.
C8_OnePendingTrigger ==
    /\ refresh \in 0..ChanCap
    /\ ENABLED Webhook
    /\ ENABLED Tick

\* A trigger is pending while a Fill is in flight, holding the lock.
C8_Witness ==
    /\ refresh = ChanCap
    /\ lock = Driver

\* The delay after the k-th consecutive failure if the first one were the
\* floor and each further one 1.5 times the one before, clamped.
RECURSIVE SpecifiedDelay(_, _)
SpecifiedDelay(k, interval) ==
    IF k <= 1 THEN (IF RetryFloor > interval THEN interval ELSE RetryFloor)
    ELSE LET prev  == SpecifiedDelay(k - 1, interval)
             grown == prev + (prev \div 2)
         IN  IF grown > interval THEN interval ELSE grown

\* Whether lastRetry was unset when the current run of failures began:
\* the revised loop resets it on every success, the first one never holds
\* zero again once a Fill has succeeded.
StartedUnset == build = "revised" \/ hash = EmptyHash

\* C9: with a resync interval of one hour, the delay slept after the k-th
\* consecutive failure from the unset state is 250ms * 1.5^(k-1).
C9_BackoffSequence ==
    (dpc = "sleep" /\ failStreak >= 1 /\ resync = Hour /\ StartedUnset)
        => lastRetry = SpecifiedDelay(failStreak, resync)

\* C6: every Wait returns, and the Keycloak loop holds the cache lock only
\* between Fill's Lock and its return, never while it fetches, sleeps or
\* waits for a trigger.
C6_WaitReturns ==
    /\ \A r \in Readers : (rpc[r] = "wait_register") ~> (rpc[r] = "load")
    /\ [](dpc \in {"idle", "fetch", "fill_lock", "sleep"} => lock = Free)

\* A Wait is registered and blocked on an empty channel while the loop
\* sleeps after a failed Fill.
C6_Witness ==
    \E r \in Readers :
        /\ rpc[r] = "wait_select"
        /\ chanLen[r] = 0
        /\ dpc = "sleep"
        /\ failStreak > 0

\* Fill is about to return nil, the store holding the sorted users it
\* fetched.
FillSucceeded ==
    /\ lock = Driver
    /\ hash = fillHash
    /\ state = Slice(users)
    /\ \/ dpc = "fill_nochange"
       \/ dpc = "fill_signal" /\ toSignal = {}

\* C10: after a failed Fill another Fill is attempted, and again and again
\* a Fill succeeds, leaving in the store the sorted users it fetched.
C10_RefreshNeverStops ==
    /\ (dpc = "sleep" /\ failStreak > 0) ~> (dpc = "fetch")
    /\ []<>FillSucceeded

\* A Fill succeeds after the longest run of failures.
C10_Witness ==
    /\ FillSucceeded
    /\ failStreak = MaxFailures

\* C11: a Fill whose fetch fails leaves state, hash, watchers and lock as
\* they are and sends on no channel, and a Load after a failed Fill returns
\* the last installed snapshot, or none if no Fill has ever installed one.
C11_FailedFillChangesNothing ==
    /\ [][ (dpc = "fetch" /\ failStreak' = failStreak + 1)
            => ( /\ state' = state
                 /\ hash' = hash
                 /\ watchers' = watchers
                 /\ lock' = lock
                 /\ chanLen' = chanLen
                 /\ dpc' = "sleep" ) ]_vars
    /\ [][ \A r \in Readers :
              (rpc[r] = "load" /\ rpc'[r] = "respond" /\ failStreak > 0)
                => /\ got'[r].hash = committed
                   /\ Consistent(got'[r])
                   /\ got'[r].state.isNil <=> committed = EmptyHash ]_vars

\* After a changed Fill, a later Fill has failed and a reader's Load has
\* returned the installed snapshot while a waiter is still registered.
C11_Witness ==
    \E r, q \in Readers :
        /\ dpc = "sleep"
        /\ failStreak > 0
        /\ rpc[r] = "respond"
        /\ ~got[r].state.isNil
        /\ rpc[q] = "wait_select"
        /\ chanLen[q] = 0

\* C12: a reader whose Load found no snapshot is answered with a status of
\* its own, not with a 200; a reader whose Load found the empty list is
\* answered 200 with the list's fingerprint as ETag and the empty array as
\* body (or 304 if it holds that fingerprint); and once a Fill has
\* installed a snapshot the store is never without one.
C12_NotWarmedDistinct ==
    /\ \A r \in Readers :
          rpc[r] = "respond" =>
            LET resp == Response(build, got[r], inm[r]) IN
            /\ got[r].state.isNil => resp.status \notin {200, 304}
            /\ got[r].state = Slice(<<>>) =>
                  IF inm[r] = calculateUsersHash(<<>>)
                  THEN resp.status = 304
                  ELSE resp = [status |-> 200,
                               etag |-> calculateUsersHash(<<>>),
                               body |-> Encode(Slice(<<>>))]
    /\ committed # EmptyHash => ~state.isNil

\* C13: a request whose wait parameter does not parse is answered 400 and
\* is over: from its arrival to its answer no channel is made or
\* registered for it, state, hash and lock are untouched, no channel
\* receives a signal and no other request moves; the answer never waits
\* for the lock.
C13_BadWaitRejected ==
    /\ [][ \A r \in Readers :
              ((rpc[r] = "reject" \/ rpc'[r] = "reject") /\ rpc'[r] # rpc[r])
                => ( /\ rpc[r] = "reject" => rpc'[r] = "idle"
                     /\ state' = state
                     /\ hash' = hash
                     /\ watchers' = watchers
                     /\ lock' = lock
                     /\ chanLen' = chanLen
                     /\ chanOpen' = chanOpen
                     /\ \A q \in Readers \ {r} : rpc'[q] = rpc[q] ) ]_vars
    /\ [](\A r \in Readers :
            rpc[r] = "reject" =>
                (r \notin watchers /\ ~chanOpen[r] /\ ENABLED Reject(r)))

\* A request is being rejected while the other reader's Wait is registered
\* and a changed Fill holds the lock.
C13_Witness ==
    \E r, q \in Readers :
        /\ rpc[r] = "reject"
        /\ rpc[q] = "wait_select"
        /\ q \in watchers
        /\ lock = Driver

\* The group's records an entry can come from: those with its user ID.
RecordsOf(u) == {k \in group : k.ID = u.UserID}

\* C14: every entry of the stored snapshot has a non-zero fobID or qrID and
\* comes from a record of the group that carries the approval attribute,
\* and the stored snapshot is in ascending order of fobID.
C14_SnapshotEntriesValid ==
    \A i \in 1..Len(state.users) :
        LET u == state.users[i] IN
        /\ u.FobID # 0 \/ u.QRID # 0
        /\ RecordsOf(u) # {}
        /\ \A k \in RecordsOf(u) :
              /\ k.hasAttrs
              /\ k.attr.buildingAccessApprover # <<>>
              /\ k.attr.buildingAccessApprover[1] # <<>>
        /\ \A j \in 1..Len(state.users) :
              i < j => u.FobID <= state.users[j].FobID

\* A Fill has installed two entries, the one without a fobID first, from a
\* group that also holds records without approval and without IDs.
C14_Witness ==
    /\ dpc = "fill_signal"
    /\ Len(state.users) = 2
    /\ state.users[1].FobID = 0
    /\ state.users[1].QRID # 0
    /\ state.users[2].FobID > 0
    /\ {KcD, KcE, KcNil} \subseteq group

\* C15: after a failed Fill and its sleep the loop goes straight to the
\* next Fill, taking nothing from the refresh channel, and it takes a
\* value from the channel only when the Fill before succeeded (or at the
\* start).
C15_RetrySameTrigger ==
    /\ [][ (dpc = "sleep" /\ failStreak > 0 /\ dpc' # dpc)
            => (dpc' = "fetch" /\ refresh' = refresh) ]_vars
    /\ [][ (dpc = "idle" /\ dpc' = "fetch") => failStreak = 0 ]_vars

\* C16: a successful Fill leaves the loop idle, and a Fill that follows a
\* success starts only by taking a value from the refresh channel.
C16_IdleAfterSuccess ==
    /\ [][ (lock = Driver /\ lock' = Free) => dpc' = "idle" ]_vars
    /\ [][ (dpc # "fetch" /\ dpc' = "fetch" /\ failStreak = 0)
            => (dpc = "idle" /\ refresh' = refresh - 1) ]_vars

\* C17: the delay slept after the first failed Fill that follows a
\* success is the delay slept after a first failure from the initial
\* state, where lastRetry is unset.
C17_SuccessResetsBackoff ==
    (dpc = "sleep" /\ failStreak = 1) => lastRetry = NextRetry(0, resync)

\* C18: every delay slept is positive and at most the resync interval,
\* and over consecutive failures each delay is at least the one before.
C18_DelaysBounded ==
    /\ [](dpc = "sleep" => (lastRetry > 0 /\ lastRetry <= resync))
    /\ [][ (dpc = "fetch" /\ failStreak >= 1
                /\ failStreak' = failStreak + 1)
            => (dpc' = "sleep" /\ lastRetry' >= lastRetry) ]_vars

\* The loop sleeps for the whole resync interval, shorter than the floor,
\* after a second consecutive failure.
C18_Witness ==
    /\ dpc = "sleep"
    /\ failStreak >= 2
    /\ resync < RetryFloor
    /\ lastRetry = resync

\* C19: registering puts an empty channel into the watcher set and wakes
\* nobody, whatever the stored fingerprint and the request's header; a
\* channel receives a signal only from a Fill that has just installed a
\* fingerprint other than the last one committed; and a registered Wait
\* whose channel is empty can go on only by its timeout.
C19_LateWaiterNotWoken ==
    /\ [][ \A r \in Readers :
              (rpc[r] = "wait_register" /\ rpc'[r] # rpc[r])
                => ( /\ rpc'[r] = "wait_select"
                     /\ chanLen'[r] = 0
                     /\ r \notin toSignal' ) ]_vars
    /\ [][ \A r \in Readers :
              chanLen'[r] > chanLen[r]
                => ( /\ dpc = "fill_signal"
                     /\ r \in toSignal
                     /\ hash = fillHash
                     /\ committed # fillHash ) ]_vars
    /\ [][ \A r \in Readers :
              (rpc[r] = "wait_select" /\ rpc'[r] # rpc[r])
                => ( /\ rpc'[r] = "wait_delete"
                     /\ \/ chanLen[r] = 1 /\ chanLen'[r] = 0
                        \/ chanLen'[r] = chanLen[r] ) ]_vars
    /\ [](\A r \in Readers :
            (rpc[r] = "wait_select" /\ chanLen[r] = 0)
                => ~ENABLED WaitSignal(r))

\* A Wait registered after a changed Fill has returned is blocked on its
\* empty channel, the stored fingerprint being another one than the
\* fingerprint its request carries.
C19_Witness ==
    \E r \in Readers :
        /\ rpc[r] = "wait_select"
        /\ chanLen[r] = 0
        /\ dpc \in {"idle", "sleep"}
        /\ hash = committed
        /\ inm[r] # EmptyHash
        /\ hash # EmptyHash
        /\ hash # inm[r]

\* C20: every channel in the watcher set is open; Fill sends only while
\* it holds the lock, and only on open channels of the watcher set; a
\* channel is closed only once it is out of the watcher set and out of
\* the channels a Fill has still to visit.
C20_NoSendOnClosed ==
    /\ [](\A ch \in watchers : chanOpen[ch])
    /\ [](dpc = "fill_signal"
            => ( /\ lock = Driver
                 /\ toSignal \subseteq watchers
                 /\ \A ch \in toSignal : chanOpen[ch] ))
    /\ [][ \A ch \in Readers :
              chanLen'[ch] > chanLen[ch]
                => (chanOpen[ch] /\ ch \in watchers /\ lock = Driver) ]_vars
    /\ [][ \A ch \in Readers :
              (chanOpen[ch] /\ ~chanOpen'[ch])
                => (ch \notin watchers /\ ch \notin toSignal) ]_vars

\* A changed Fill is about to send to a waiter that has timed out and
\* waits for the lock to deregister, while the other waiter, already
\* deregistered, is about to close its channel.
C20_Witness ==
    \E r, q \in Readers :
        /\ dpc = "fill_signal"
        /\ rpc[r] = "wait_delete"
        /\ r \in toSignal
        /\ rpc[q] = "wait_close"
        /\ chanOpen[q]
====
